---- MODULE Spec2Model ----
(***************************************************************************)
(* lazy-db: the value codec (LazyData writers and accessors), the          *)
(* container tree, and the LazyDB lifecycle (init, init_db, load_dir,      *)
(* load_db, compile, decompile, Drop) over a small file system.            *)
(***************************************************************************)
EXTENDS Integers, Sequences, FiniteSets, TLC

VARIABLES
    cfile,      \* codec: contents of the leaf file data.ld, <<-1>> before it is created
    cwritten,   \* codec: the writer call that produced cfile: [t, v]
    cres,       \* codec: result of the last LazyData::load(..).collect_T()
    fs,         \* lifecycle: the file system, Path -> Node
    handles,    \* lifecycle: the LazyDB values, live or dropped
    last,       \* lifecycle: what the last operation was given and returned
    used        \* lifecycle: the writes made and the I/O faults met so far

vars == <<cfile, cwritten, cres, fs, handles, last, used>>

(***************************************************************************)
(* Results                                                                 *)
(***************************************************************************)
Ok(v) == [ok |-> TRUE, err |-> "", val |-> v]
Err(e) == [ok |-> FALSE, err |-> e, val |-> 0]

(***************************************************************************)
(* Value codec: src/lazy_data/writing.rs                                   *)
(***************************************************************************)
\* The LazyType discriminants in the order of their byte values.
LazyTypes ==
    << "Void", "String", "I8", "I16", "I32", "I64", "I128",
       "U8", "U16", "U32", "U64", "U128", "F32", "F64",
       "Binary", "True", "False", "Link", "Array" >>

\* u8::from(LazyType): one byte per discriminant.
TagByte(t) == CHOOSE i \in 1..Len(LazyTypes) : LazyTypes[i] = t

SignedTypes == {"I8", "I16", "I32", "I64", "I128"}
UnsignedTypes == {"U8", "U16", "U32", "U64", "U128"}
NumberTypes == SignedTypes \cup UnsignedTypes
FloatTypes == {"F32", "F64"}

\* size_of::<$type>() in bytes
Width(t) ==
    CASE t \in {"I8", "U8"} -> 1
      [] t \in {"I16", "U16"} -> 2
      [] t \in {"I32", "U32", "F32"} -> 4
      [] t \in {"I64", "U64", "F64"} -> 8
      [] t \in {"I128", "U128"} -> 16

RECURSIVE Pow256(_)
Pow256(k) == IF k = 0 THEN 1 ELSE 256 * Pow256(k - 1)

\* v >> (8 * k) on a two's complement integer; values are kept within 32 bits, so
\* a shift by four bytes or more leaves only the sign.
ShiftRight(v, k) == IF k >= 4 THEN (IF v < 0 THEN -1 ELSE 0) ELSE v \div Pow256(k)

\* {integer}::to_be_bytes, most significant byte first
to_be_bytes(v, w) == [i \in 1..w |-> ShiftRight(v, w - i) % 256]

\* f32::to_be_bytes of the IEEE-754 fields [s: sign, e: 8 bits, f: 23 bits]
f32_to_be_bytes(v) ==
    << (v.s * 128) + (v.e \div 2),
       ((v.e % 2) * 128) + (v.f \div 65536),
       (v.f \div 256) % 256,
       v.f % 256 >>

\* f64::to_be_bytes of the IEEE-754 fields [s, e: 11 bits, f1: 20 bits, f2: 16, f3: 16]
f64_to_be_bytes(v) ==
    << (v.s * 128) + (v.e \div 16),
       ((v.e % 16) * 16) + (v.f1 \div 65536),
       (v.f1 \div 256) % 256,
       v.f1 % 256,
       v.f2 \div 256, v.f2 % 256,
       v.f3 \div 256, v.f3 % 256 >>

\* str::as_bytes: the UTF-8 encoding of a sequence of code points
utf8_char(c) ==
    IF c < 128 THEN << c >>
    ELSE IF c < 2048 THEN << 192 + (c \div 64), 128 + (c % 64) >>
    ELSE << 224 + (c \div 4096), 128 + ((c \div 64) % 64), 128 + (c % 64) >>

RECURSIVE as_bytes(_)
as_bytes(s) == IF s = << >> THEN << >> ELSE utf8_char(Head(s)) \o as_bytes(Tail(s))

\* FileWrapper::write on a writer: appends to the file
file_write(file, bytes) == file \o bytes

\* new_number! with the payload's length written before it
new_number_len_prefixed(file, t, value) ==
    file_write(file_write(file, << TagByte(t), Width(t) >>), to_be_bytes(value, Width(t)))
\* new_number!: tag byte, then the big-endian bytes
new_number(file, t, value) ==
    file_write(file_write(file, << TagByte(t) >>), to_be_bytes(value, Width(t)))

RECURSIVE array_bytes(_, _)
array_bytes(value, et) ==
    IF value = << >> THEN << >>
    ELSE to_be_bytes(Head(value), Width(et)) \o array_bytes(Tail(value), et)

\* new_array!: the Array tag, the element tag, then the elements back to back
new_array(file, et, value) ==
    file_write(file_write(file, << TagByte("Array"), TagByte(et) >>), array_bytes(value, et))

new_void(file) == file_write(file, << TagByte("Void") >>)

new_string(file, value) ==
    file_write(file_write(file, << TagByte("String") >>), as_bytes(value))

new_f32(file, value) ==
    file_write(file_write(file, << TagByte("F32") >>), f32_to_be_bytes(value))

new_f64(file, value) ==
    file_write(file_write(file, << TagByte("F64") >>), f64_to_be_bytes(value))

new_binary(file, value) ==
    file_write(file_write(file, << TagByte("Binary") >>), value)

\* new_bool storing the flag as an unsigned byte instead of one of two tags
new_bool_payload_byte(file, value) ==
    file_write(file, << TagByte("U8"), IF value THEN 1 ELSE 0 >>)
new_bool(file, value) ==
    IF value THEN file_write(file, << TagByte("True") >>)
    ELSE file_write(file, << TagByte("False") >>)

\* a link's path string is ASCII here, so OsStr::as_bytes is its UTF-8
new_link(file, data) ==
    file_write(file_write(file, << TagByte("Link") >>), as_bytes(data))

\* The writer families, by the name of the type they store
WriterTypes ==
    NumberTypes \cup FloatTypes
        \cup {"Void", "String", "Binary", "Bool", "Link", "U8Array", "I16Array"}

\* LazyData::new_<t>(file, value)
Writer(file, t, value) ==
    CASE t \in NumberTypes -> new_number(file, t, value)
      [] t = "F32" -> new_f32(file, value)
      [] t = "F64" -> new_f64(file, value)
      [] t = "Void" -> new_void(file)
      [] t = "String" -> new_string(file, value)
      [] t = "Binary" -> new_binary(file, value)
      [] t = "Bool" -> new_bool(file, value)
      [] t = "Link" -> new_link(file, value)
      [] t = "U8Array" -> new_array(file, "U8", value)
      [] t = "I16Array" -> new_array(file, "I16", value)

(***************************************************************************)
(* Lazy value handle: LazyData::load and the collect_T accessors.          *)
(***************************************************************************)
RECURSIVE horner(_, _)
horner(acc, bs) == IF bs = << >> THEN acc ELSE horner((acc * 256) + Head(bs), Tail(bs))

\* {integer}::from_be_bytes
from_be_bytes(bs, signed) ==
    IF signed /\ Head(bs) >= 128 THEN horner(Head(bs) - 256, Tail(bs))
    ELSE horner(Head(bs), Tail(bs))

f32_from_be_bytes(b) ==
    [s |-> b[1] \div 128,
     e |-> ((b[1] % 128) * 2) + (b[2] \div 128),
     f |-> ((b[2] % 128) * 65536) + (b[3] * 256) + b[4]]

f64_from_be_bytes(b) ==
    [s |-> b[1] \div 128,
     e |-> ((b[1] % 128) * 16) + (b[2] \div 16),
     f1 |-> ((b[2] % 16) * 65536) + (b[3] * 256) + b[4],
     f2 |-> (b[5] * 256) + b[6],
     f3 |-> (b[7] * 256) + b[8]]

IsCont(bs, i) == i <= Len(bs) /\ bs[i] >= 128 /\ bs[i] < 192

\* String::from_utf8: [ok, s], rejecting stray, truncated and overlong sequences
RECURSIVE from_utf8(_)
from_utf8(bs) ==
    IF bs = << >> THEN [ok |-> TRUE, s |-> << >>]
    ELSE LET b == Head(bs)
             n == IF b < 128 THEN 1
                  ELSE IF b >= 192 /\ b < 224 /\ IsCont(bs, 2) THEN 2
                  ELSE IF b >= 224 /\ b < 240 /\ IsCont(bs, 2) /\ IsCont(bs, 3) THEN 3
                  ELSE 0
             c == CASE n = 1 -> b
                    [] n = 2 -> ((b - 192) * 64) + (bs[2] - 128)
                    [] n = 3 -> ((b - 224) * 4096) + ((bs[2] - 128) * 64) + (bs[3] - 128)
                    [] OTHER -> 0
             overlong == (n = 2 /\ c < 128) \/ (n = 3 /\ c < 2048)
         IN IF n = 0 \/ overlong THEN [ok |-> FALSE, s |-> << >>]
            ELSE LET rest == from_utf8(SubSeq(bs, n + 1, Len(bs)))
                 IN [ok |-> rest.ok, s |-> << c >> \o rest.s]

RECURSIVE array_from_bytes(_, _, _)
array_from_bytes(bs, w, signed) ==
    IF bs = << >> THEN << >>
    ELSE << from_be_bytes(SubSeq(bs, 1, w), signed) >>
            \o array_from_bytes(SubSeq(bs, w + 1, Len(bs)), w, signed)

\* The element type of the array accessors modelled
ElemType(t) == IF t = "U8Array" THEN "U8" ELSE "I16"

\* Whether the stored tag byte(s) are those accessor t expects
TagMatches(bytes, t) ==
    CASE t = "Bool" -> bytes[1] \in {TagByte("True"), TagByte("False")}
      [] t \in {"U8Array", "I16Array"} ->
            /\ bytes[1] = TagByte("Array")
            /\ Len(bytes) >= 2
            /\ bytes[2] = TagByte(ElemType(t))
      [] OTHER -> bytes[1] = TagByte(t)

\* decode_payload for an accessor whose tag matched
DecodePayload(bytes, t) ==
    LET payload == SubSeq(bytes, 2, Len(bytes)) IN
    CASE t \in NumberTypes ->
            IF Len(payload) = Width(t)
            THEN Ok(from_be_bytes(payload, t \in SignedTypes))
            ELSE Err("MalformedPayload")
      [] t = "F32" ->
            IF Len(payload) = Width(t) THEN Ok(f32_from_be_bytes(payload))
            ELSE Err("MalformedPayload")
      [] t = "F64" ->
            IF Len(payload) = Width(t) THEN Ok(f64_from_be_bytes(payload))
            ELSE Err("MalformedPayload")
      [] t = "Void" -> Ok(0)
      [] t \in {"String", "Link"} ->
            LET r == from_utf8(payload)
            IN IF r.ok THEN Ok(r.s) ELSE Err("MalformedPayload")
      [] t = "Binary" -> Ok(payload)
      [] t = "Bool" -> Ok(bytes[1] = TagByte("True"))
      [] t \in {"U8Array", "I16Array"} ->
            LET elems == SubSeq(bytes, 3, Len(bytes))
                w == Width(ElemType(t))
            IN IF Len(elems) % w = 0
               THEN Ok(array_from_bytes(elems, w, ElemType(t) \in SignedTypes))
               ELSE Err("MalformedPayload")

\* LazyData::load(file).collect_<t>(): the tag is read first, the payload only
\* once the tag is the requested one
Collect(bytes, t) ==
    IF Len(bytes) = 0 THEN Err("IOError")
    ELSE IF ~TagMatches(bytes, t) THEN Err("TypeMismatch")
    ELSE DecodePayload(bytes, t)

(***************************************************************************)
(* The codec on one leaf file, as tests/lazy_data_test.rs drives it:       *)
(* File::create, LazyData::new_T, LazyData::load, collect_T.               *)
(***************************************************************************)
MaxStrLen == 2
MaxBinLen == 2

I32Min == -2147483647 - 1
I32Max == -(I32Min + 1)

\* Values handed to the integer writers; the wider types take the values of
\* theirs that fit 32 bits
IntValues(t) ==
    CASE t = "I8" -> {-128, -1, 0, 21, 127}
      [] t = "I16" -> {-32768, -129, -1, 0, 255, 32767}
      [] t = "I32" -> {I32Min, -1234, -1, 0, 65536, I32Max}
      [] t \in {"I64", "I128"} -> {I32Min, -1, 0, 1, I32Max}
      [] t = "U8" -> {0, 21, 128, 255}
      [] t = "U16" -> {0, 255, 256, 65535}
      [] t \in {"U32", "U64", "U128"} -> {0, 3908, 16777216, I32Max}

\* 0.0, -0.0, 1.0, 123.234, infinity, -infinity, a NaN
F32Values ==
    { [s |-> 0, e |-> 0, f |-> 0], [s |-> 1, e |-> 0, f |-> 0],
      [s |-> 0, e |-> 127, f |-> 0], [s |-> 0, e |-> 133, f |-> 7763919],
      [s |-> 0, e |-> 255, f |-> 0], [s |-> 1, e |-> 255, f |-> 0],
      [s |-> 0, e |-> 255, f |-> 4194304] }

\* 0.0, -0.0, 1.0, 123141234.1234, infinity, a NaN
F64Values ==
    { [s |-> 0, e |-> 0, f1 |-> 0, f2 |-> 0, f3 |-> 0],
      [s |-> 1, e |-> 0, f1 |-> 0, f2 |-> 0, f3 |-> 0],
      [s |-> 0, e |-> 1023, f1 |-> 0, f2 |-> 0, f3 |-> 0],
      [s |-> 0, e |-> 1049, f1 |-> 875505, f2 |-> 51326, f3 |-> 23698],
      [s |-> 0, e |-> 2047, f1 |-> 0, f2 |-> 0, f3 |-> 0],
      [s |-> 1, e |-> 2047, f1 |-> 524288, f2 |-> 0, f3 |-> 1] }

SeqsUpTo(S, n) == UNION { [1..k -> S] : k \in 0..n }

\* code points of "a", "e" acute (two bytes) and the euro sign (three bytes)
Chars == {97, 233, 8364}
StringValues == SeqsUpTo(Chars, MaxStrLen)
BinaryValues == SeqsUpTo({0, 128, 255}, MaxBinLen)
LinkValues == SeqsUpTo({47, 97}, MaxStrLen)

TestValues(t) ==
    CASE t \in NumberTypes -> IntValues(t)
      [] t = "F32" -> F32Values
      [] t = "F64" -> F64Values
      [] t = "Void" -> {0}
      [] t = "String" -> StringValues
      [] t = "Binary" -> BinaryValues
      [] t = "Bool" -> BOOLEAN
      [] t = "Link" -> LinkValues
      [] t = "U8Array" -> SeqsUpTo({0, 255}, MaxBinLen)
      [] t = "I16Array" -> SeqsUpTo({-32768, -1, 255}, MaxBinLen)

NoFile == << -1 >>
NoCall == [t |-> "none", v |-> 0]
NoCollect == [t |-> "none", r |-> Err("none")]

\* the database lifecycle plays no part in the codec's test
LifeIdle ==
    /\ fs = << >>
    /\ handles = << >>
    /\ last = << >>
    /\ used = << >>

CodecInit ==
    /\ cfile = NoFile
    /\ cwritten = NoCall
    /\ cres = NoCollect
    /\ LifeIdle

\* File::create(&path), then LazyData::$func(file, og)
CodecWrite(t, v) ==
    /\ cfile' = Writer(<< >>, t, v)
    /\ cwritten' = [t |-> t, v |-> v]
    /\ cres' = NoCollect
    /\ UNCHANGED <<fs, handles, last, used>>

\* LazyData::load(path).$collect()
CodecCollect(t) ==
    /\ cfile # NoFile
    /\ cres' = [t |-> t, r |-> Collect(cfile, t)]
    /\ UNCHANGED <<cfile, cwritten, fs, handles, last, used>>

CodecNext ==
    \/ \E t \in WriterTypes : \E v \in TestValues(t) : CodecWrite(t, v)
    \/ \E t \in WriterTypes : CodecCollect(t)

CodecSpec == CodecInit /\ [][CodecNext]_vars

(***************************************************************************)
(* The file system the database lives in.                                  *)
(***************************************************************************)
\* A path is a stem and an extension; Path::with_extension replaces the latter
P(stem, ext) == [stem |-> stem, ext |-> ext]
with_extension(p, ext) == [stem |-> p.stem, ext |-> ext]

Stems == {"db"}
Exts == {"", "modb", "ldb", "zip", "tmp.tar"}
Paths == [stem : Stems, ext : Exts]

\* Container paths below a database root, and the leaves addressed in them
Root == << >>
Dave == << "people", "Dave" >>
MetaKey == << Root, ".meta" >>
UserKeys == { << Root, "age" >>, << Dave, "age" >> }
LeafKeys == {MetaKey} \cup UserKeys

\* A directory tree: its sub-containers and the bytes of each leaf (NoFile: absent)
EmptyTree == [cons |-> {}, leaves |-> [k \in LeafKeys |-> NoFile]]

\* A node is nothing, a directory with its tree, or a file produced by the archive
\* backend: the pack of a tree (z = FALSE) or the compressed pack of one (z = TRUE)
NoNode == [kind |-> "none", z |-> FALSE, tree |-> EmptyTree]
DirNode(t) == [kind |-> "dir", z |-> FALSE, tree |-> t]
FileNode(z, t) == [kind |-> "file", z |-> z, tree |-> t]

is_dir(fsys, p) == fsys[p].kind = "dir"
is_file(fsys, p) == fsys[p].kind = "file"

\* path.join(name).is_file() for a leaf of the directory at p
leaf_is_file(fsys, p, key) == is_dir(fsys, p) /\ fsys[p].tree.leaves[key] # NoFile

put_leaf(fsys, p, key, bytes) ==
    [fsys EXCEPT ![p].tree.leaves[key] = bytes]

\* The prefixes of a container path, outermost first
Prefixes(con) == { SubSeq(con, 1, n) : n \in 1..Len(con) }

(***************************************************************************)
(* Version gate                                                            *)
(***************************************************************************)
VERSION_major == 1
VERSION_minor == 2
VERSION_build == 1

\* Version::is_compatible
is_compatible(major, read_major) == major = read_major

(***************************************************************************)
(* Container tree: LazyContainer, and the search_database! and             *)
(* write_database! macros of src/lazy_database.rs                          *)
(***************************************************************************)
\* LazyContainer::load(path), as LazyDB::as_container calls it
container_load(fsys, p) == IF is_dir(fsys, p) THEN Ok(p) ELSE Err("DirNotFound")

\* child_container(name): the named subdirectory has to exist
child_container(fsys, p, con) ==
    IF is_dir(fsys, p) /\ con \in fsys[p].tree.cons THEN Ok(con) ELSE Err("DirNotFound")

\* search_database!((ldb) /a/b): as_container()?, then child_container(..)? for
\* each segment in turn; the first missing one is the error returned
search_container(fsys, p, con) ==
    IF ~container_load(fsys, p).ok THEN Err("DirNotFound")
    ELSE IF \E pre \in Prefixes(con) : ~child_container(fsys, p, pre).ok
         THEN Err("DirNotFound")
         ELSE Ok(con)

\* write_database!((ldb) /a/b::item = new_t(value)): resolve the container,
\* data_writer(item) creates or truncates the file, new_t writes it
write_database(fsys, p, key, t, value) ==
    LET c == search_container(fsys, p, key[1]) IN
    IF ~c.ok THEN [fs |-> fsys, res |-> c]
    ELSE [fs |-> put_leaf(fsys, p, key, Writer(<< >>, t, value)), res |-> Ok(0)]

\* search_database!((ldb) /a/b::item).collect_t(): read_data(item) needs the
\* file to exist
search_collect(fsys, p, key, t) ==
    LET c == search_container(fsys, p, key[1]) IN
    IF ~c.ok THEN c
    ELSE IF ~leaf_is_file(fsys, p, key) THEN Err("FileNotFound")
    ELSE Collect(fsys[p].tree.leaves[key], t)

(***************************************************************************)
(* Archive backend: lazy_archive                                           *)
(***************************************************************************)
InitFaults == {"none", "create_dir_all", "File::create"}
CompileFaults == {"none", "build_tar", "compress_file", "remove_file"}
DecompileFaults == {"none", "decompress_file", "unpack_tar", "remove_file"}
RemoveOutcomes == {"ok", "intact", "emptied"}

\* build_tar(dir, tar): packs the tree of dir into the file tar
build_tar(fsys, dir, tar) == [fsys EXCEPT ![tar] = FileNode(FALSE, fsys[dir].tree)]

\* compress_file(src, out)
compress_file(fsys, src, out) == [fsys EXCEPT ![out] = FileNode(TRUE, fsys[src].tree)]

\* decompress_file(src, out)
decompress_file(fsys, src, out) == [fsys EXCEPT ![out] = FileNode(FALSE, fsys[src].tree)]

\* unpack_tar(tar, out): the packed tree becomes the directory out; entries
\* already in out and not in the pack stay
unpack_tar(fsys, tar, out) ==
    LET new == fsys[tar].tree
        old == IF is_dir(fsys, out) THEN fsys[out].tree ELSE EmptyTree
        merged == [cons |-> old.cons \cup new.cons,
                   leaves |-> [k \in LeafKeys |->
                        IF new.leaves[k] # NoFile THEN new.leaves[k] ELSE old.leaves[k]]]
    IN [fsys EXCEPT ![out] = DirNode(merged)]

remove_file(fsys, p) == [fsys EXCEPT ![p] = NoNode]

\* fs::remove_dir_all(path): removes the tree, or fails before removing
\* anything, or fails having unlinked the files but not the directories
remove_dir_all(fsys, p, outcome) ==
    CASE outcome = "ok" -> [fsys EXCEPT ![p] = NoNode]
      [] outcome = "intact" -> fsys
      [] outcome = "emptied" ->
            [fsys EXCEPT ![p].tree.leaves = [k \in LeafKeys |-> NoFile]]

(***************************************************************************)
(* LazyDB: src/lazy_database.rs                                            *)
(***************************************************************************)
LazyDB(path, compressed) == [path |-> path, compressed |-> compressed]
NoDB == LazyDB(P("", ""), FALSE)

\* LazyDB::init with the .meta written whether or not it is there
init_rewrites_meta(fsys, path, fault) ==
    LET create == ~is_dir(fsys, path)
        fs1 == IF create THEN [fsys EXCEPT ![path] = DirNode(EmptyTree)] ELSE fsys
        fs2 == put_leaf(fs1, path, MetaKey,
                    new_binary(<< >>, << VERSION_major, VERSION_minor, VERSION_build >>))
    IN IF create /\ (fault = "create_dir_all" \/ is_file(fsys, path))
       THEN [fs |-> fsys, res |-> Err("IOError"), db |-> NoDB]
       ELSE IF fault = "File::create"
       THEN [fs |-> fs1, res |-> Err("IOError"), db |-> NoDB]
       ELSE [fs |-> fs2, res |-> Ok(0), db |-> LazyDB(path, FALSE)]

\* LazyDB::init
init(fsys, path, fault) ==
    LET create == ~is_dir(fsys, path)
        fs1 == IF create THEN [fsys EXCEPT ![path] = DirNode(EmptyTree)] ELSE fsys
        write_meta == ~leaf_is_file(fs1, path, MetaKey)
        fs2 == IF write_meta
               THEN put_leaf(fs1, path, MetaKey,
                        new_binary(<< >>, << VERSION_major, VERSION_minor, VERSION_build >>))
               ELSE fs1
    IN IF create /\ (fault = "create_dir_all" \/ is_file(fsys, path))
       THEN [fs |-> fsys, res |-> Err("IOError"), db |-> NoDB]
       ELSE IF write_meta /\ fault = "File::create"
       THEN [fs |-> fs1, res |-> Err("IOError"), db |-> NoDB]
       ELSE [fs |-> fs2, res |-> Ok(0), db |-> LazyDB(path, FALSE)]

\* LazyDB::init_db
init_db(fsys, path, fault) ==
    LET dir_path == with_extension(path, "modb")
        this == init(fsys, dir_path, fault)
    IN IF ~this.res.ok THEN this
       ELSE [this EXCEPT !.db.compressed = TRUE]

\* LazyDB::load_dir without the comparison of the major versions
load_dir_any_major(fsys, path) ==
    LET meta == IF is_dir(fsys, path) THEN fsys[path].tree.leaves[MetaKey] ELSE NoFile
        read_version == Collect(meta, "Binary")
    IN IF ~is_dir(fsys, path) THEN [res |-> Err("DirNotFound"), db |-> NoDB]
       ELSE IF meta = NoFile THEN [res |-> Err("FileNotFound"), db |-> NoDB]
       ELSE IF ~read_version.ok THEN [res |-> read_version, db |-> NoDB]
       ELSE IF Len(read_version.val) # 3
            THEN [res |-> Err("InvalidMetaVersion"), db |-> NoDB]
       ELSE [res |-> Ok(0), db |-> LazyDB(path, FALSE)]

\* LazyDB::load_dir
load_dir(fsys, path) ==
    LET meta == IF is_dir(fsys, path) THEN fsys[path].tree.leaves[MetaKey] ELSE NoFile
        read_version == Collect(meta, "Binary")
    IN IF ~is_dir(fsys, path) THEN [res |-> Err("DirNotFound"), db |-> NoDB]
       ELSE IF meta = NoFile THEN [res |-> Err("FileNotFound"), db |-> NoDB]
       ELSE IF ~read_version.ok THEN [res |-> read_version, db |-> NoDB]
       ELSE IF Len(read_version.val) # 3
            THEN [res |-> Err("InvalidMetaVersion"), db |-> NoDB]
       ELSE IF ~is_compatible(VERSION_major, read_version.val[1])
            THEN [res |-> Err("IncompatibleVersion"), db |-> NoDB]
       ELSE [res |-> Ok(0), db |-> LazyDB(path, FALSE)]

\* LazyDB::compile with the directory deleted once it is packed
compile_deletes_directory(fsys, self_path, out_path, fault) ==
    LET tar == with_extension(self_path, "tmp.tar")
        fs1 == [build_tar(fsys, self_path, tar) EXCEPT ![self_path] = NoNode]
        fs2 == compress_file(fs1, tar, out_path)
        fs3 == remove_file(fs2, tar)
    IN IF fault = "build_tar" \/ ~is_dir(fsys, self_path)
       THEN [fs |-> fsys, res |-> Err("IOError")]
       ELSE IF fault = "compress_file" \/ is_dir(fs1, out_path)
       THEN [fs |-> fs1, res |-> Err("IOError")]
       ELSE IF fault = "remove_file"
       THEN [fs |-> fs2, res |-> Err("IOError")]
       ELSE [fs |-> fs3, res |-> Ok(0)]

\* LazyDB::compile with the pack moved to out_path as it is, not compressed
compile_uncompressed(fsys, self_path, out_path, fault) ==
    LET tar == with_extension(self_path, "tmp.tar")
        fs1 == build_tar(fsys, self_path, tar)
        fs2 == [fs1 EXCEPT ![out_path] = fs1[tar]]
        fs3 == remove_file(fs2, tar)
    IN IF fault = "build_tar" \/ ~is_dir(fsys, self_path)
       THEN [fs |-> fsys, res |-> Err("IOError")]
       ELSE IF fault = "compress_file" \/ is_dir(fs1, out_path)
       THEN [fs |-> fs1, res |-> Err("IOError")]
       ELSE IF fault = "remove_file"
       THEN [fs |-> fs2, res |-> Err("IOError")]
       ELSE [fs |-> fs3, res |-> Ok(0)]

\* LazyDB::compile
compile(fsys, self_path, out_path, fault) ==
    LET tar == with_extension(self_path, "tmp.tar")
        fs1 == build_tar(fsys, self_path, tar)
        fs2 == compress_file(fs1, tar, out_path)
        fs3 == remove_file(fs2, tar)
    IN IF fault = "build_tar" \/ ~is_dir(fsys, self_path)
       THEN [fs |-> fsys, res |-> Err("IOError")]
       ELSE IF fault = "compress_file" \/ is_dir(fs1, out_path)
       THEN [fs |-> fs1, res |-> Err("IOError")]
       ELSE IF fault = "remove_file"
       THEN [fs |-> fs2, res |-> Err("IOError")]
       ELSE [fs |-> fs3, res |-> Ok(0)]

\* LazyDB::decompile without the final fs::remove_file(tar)
decompile_keeps_pack(fsys, path, out_path, fault) ==
    LET tar == with_extension(path, "tmp.tar")
        fs1 == decompress_file(fsys, path, tar)
        fs2 == unpack_tar(fs1, tar, out_path)
    IN IF ~is_file(fsys, path)
       THEN [fs |-> fsys, res |-> Err("FileNotFound")]
       ELSE IF fault = "decompress_file" \/ ~fsys[path].z
       THEN [fs |-> fsys, res |-> Err("IOError")]
       ELSE IF fault = "unpack_tar"
       THEN [fs |-> fs1, res |-> Err("IOError")]
       ELSE [fs |-> fs2, res |-> Ok(0)]

\* LazyDB::decompile
decompile(fsys, path, out_path, fault) ==
    LET tar == with_extension(path, "tmp.tar")
        fs1 == decompress_file(fsys, path, tar)
        fs2 == unpack_tar(fs1, tar, out_path)
        fs3 == remove_file(fs2, tar)
    IN IF ~is_file(fsys, path)
       THEN [fs |-> fsys, res |-> Err("FileNotFound")]
       ELSE IF fault = "decompress_file" \/ ~fsys[path].z
       THEN [fs |-> fsys, res |-> Err("IOError")]
       ELSE IF fault = "unpack_tar"
       THEN [fs |-> fs1, res |-> Err("IOError")]
       ELSE IF fault = "remove_file"
       THEN [fs |-> fs2, res |-> Err("IOError")]
       ELSE [fs |-> fs3, res |-> Ok(0)]

\* LazyDB::load_db
load_db(fsys, path, fault) ==
    LET mod_path == with_extension(path, "modb")
        reused == load_dir(fsys, mod_path)
        dec == decompile(fsys, path, mod_path, fault)
        ldb == load_dir(dec.fs, mod_path)
    IN IF is_dir(fsys, mod_path)
       THEN [fs |-> fsys, res |-> reused.res, db |-> reused.db]
       ELSE IF ~dec.res.ok THEN [fs |-> dec.fs, res |-> dec.res, db |-> NoDB]
       ELSE IF ~ldb.res.ok THEN [fs |-> dec.fs, res |-> ldb.res, db |-> NoDB]
       ELSE [fs |-> dec.fs, res |-> Ok(0), db |-> [ldb.db EXCEPT !.compressed = TRUE]]

\* Drop for LazyDB with the directory removed whatever the compile step returned
drop_removes_anyway(fsys, self, fault, outcome) ==
    LET c == compile(fsys, self.path, with_extension(self.path, "ldb"), fault)
    IN IF ~self.compressed THEN [fs |-> fsys, compiled |-> FALSE, removal |-> "none"]
       ELSE [fs |-> remove_dir_all(c.fs, self.path, outcome),
             compiled |-> c.res.ok, removal |-> outcome]

\* Drop for LazyDB; compiled tells whether the compile step ran and succeeded
drop(fsys, self, fault, outcome) ==
    LET c == compile(fsys, self.path, with_extension(self.path, "ldb"), fault)
    IN IF ~self.compressed THEN [fs |-> fsys, compiled |-> FALSE, removal |-> "none"]
       ELSE IF ~c.res.ok THEN [fs |-> c.fs, compiled |-> FALSE, removal |-> "none"]
       ELSE [fs |-> remove_dir_all(c.fs, self.path, outcome),
             compiled |-> TRUE, removal |-> outcome]

(***************************************************************************)
(* The program: a single thread that creates LazyDB values, writes and     *)
(* reads leaves through them, compiles them and drops them, in any order.  *)
(***************************************************************************)
MaxHandles == 2
MaxWrites == 1
MaxFaults == 1

InitArgs == { P("db", "") }
InitDbArgs == { P("db", "") }
DirArgs == { P("db", ""), P("db", "modb") }
ArchiveArgs == { P("db", "ldb"), P("db", "zip") }
CompileArgs == { P("db", "zip") }

\* new_u8(21), new_string("a"); collect_u8(), collect_string()
LifeTypes == {"U8"}
LifeValues(t) ==
    CASE t = "U8" -> {21}
      [] t = "String" -> { << 97 >> }
CollectTypes == {"U8", "String"}

NothingWritten == [k \in UserKeys |-> NoCall]

\* A LazyDB value in scope, with the constructor that returned it and the path
\* that constructor was given, whether no
\* other LazyDB value on its directory was in scope at any time since (alone),
\* whether moreover its constructor created the directory (sole), and the
\* values written through it that are still the leaves' contents
Handle(db, origin, arg, sole, alone) ==
    [db |-> db, live |-> TRUE, origin |-> origin, arg |-> arg, sole |-> sole,
     alone |-> alone, wrote |-> NothingWritten]

\* No LazyDB value: one not constructed yet, and one dropped
Dead == [db |-> LazyDB(P("", ""), FALSE), live |-> FALSE, origin |-> "none",
         arg |-> P("", ""), sole |-> FALSE, alone |-> FALSE, wrote |-> NothingWritten]
Dropped == [Dead EXCEPT !.origin = "dropped"]

Last(op, h, arg, res) ==
    [op |-> op, h |-> h, arg |-> arg, key |-> MetaKey, t |-> "none", res |-> res,
     fault |-> "none", compiled |-> FALSE, removal |-> "none", self |-> Dead]

\* A .meta as LazyDB::init of a given version wrote it
Stamp(bytes) == new_binary(<< >>, bytes)
MetaTree(cons, bytes) ==
    [cons |-> cons, leaves |-> [EmptyTree.leaves EXCEPT ![MetaKey] = Stamp(bytes)]]

\* What may lie at "db" before the program starts: nothing, a directory that
\* is no database, a database of this version with containers in it, one of
\* another minor and build, one of another major, one with a short stamp
PreExisting ==
    { NoNode,
      DirNode(EmptyTree),
      DirNode(MetaTree(Prefixes(Dave), << VERSION_major, VERSION_minor, VERSION_build >>)),
      DirNode(MetaTree({}, << VERSION_major, 0, 9 >>)),
      DirNode(MetaTree({}, << VERSION_major + 1, VERSION_minor, VERSION_build >>)),
      DirNode(MetaTree({}, << VERSION_major, VERSION_minor >>)) }

CodecIdle ==
    /\ cfile = NoFile
    /\ cwritten = NoCall
    /\ cres = NoCollect

Init ==
    /\ CodecIdle
    /\ \E n \in PreExisting :
          fs = [p \in Paths |-> IF p = P("db", "") THEN n ELSE NoNode]
    /\ handles = [h \in 1..MaxHandles |-> Dead]
    /\ last = Last("none", 0, P("", ""), Ok(0))
    /\ used = [writes |-> 0, faults |-> 0]

Live(h) == handles[h].live

\* The run constructs at most MaxHandles LazyDB values, the next one in Slot
Room == handles[MaxHandles] = Dead
Slot == CHOOSE h \in 1..MaxHandles : handles[h] = Dead /\ \A g \in 1..(h - 1) : handles[g] # Dead

\* A new LazyDB value, when the constructor returned one
Construct(r, origin, arg) ==
    IF ~r.res.ok THEN handles
    ELSE [h \in 1..MaxHandles |->
            IF h = Slot
            THEN Handle(r.db, origin, arg,
                        ~is_dir(fs, r.db.path)
                            /\ \A g \in 1..MaxHandles : handles[g].db.path # r.db.path,
                        \A g \in 1..MaxHandles : handles[g].db.path # r.db.path)
            ELSE IF handles[h].db.path = r.db.path
            THEN [handles[h] EXCEPT !.sole = FALSE, !.alone = FALSE]
            ELSE handles[h]]
Returned(r) == IF r.res.ok THEN Slot ELSE 0

\* the directory at p is gone or emptied: nothing written to it is current
Forget(hs, p) ==
    [h \in 1..MaxHandles |->
        IF hs[h].db.path = p THEN [hs[h] EXCEPT !.wrote = NothingWritten] ELSE hs[h]]

\* An I/O fault is one the call reaches (it changes what the call does), and
\* the run meets at most MaxFaults of them
Meets(fault, differs) ==
    /\ fault # "none" => (used.faults < MaxFaults /\ differs)
    /\ used' = [used EXCEPT !.faults = IF fault = "none" THEN @ ELSE @ + 1]

CallInit(path, fault) ==
    /\ Room
    /\ LET r == init(fs, path, fault) IN
        /\ Meets(fault, r # init(fs, path, "none"))
        /\ fs' = r.fs
        /\ handles' = Construct(r, "init", path)
        /\ last' = [Last("init", Returned(r), path, r.res) EXCEPT !.fault = fault]
    /\ UNCHANGED <<cfile, cwritten, cres>>

CallInitDb(path, fault) ==
    /\ Room
    /\ LET r == init_db(fs, path, fault) IN
        /\ Meets(fault, r # init_db(fs, path, "none"))
        /\ fs' = r.fs
        /\ handles' = Construct(r, "init_db", path)
        /\ last' = [Last("init_db", Returned(r), path, r.res) EXCEPT !.fault = fault]
    /\ UNCHANGED <<cfile, cwritten, cres>>

CallLoadDir(path) ==
    /\ Room
    /\ LET r == load_dir(fs, path) IN
        /\ handles' = Construct(r, "load_dir", path)
        /\ last' = Last("load_dir", Returned(r), path, r.res)
    /\ UNCHANGED <<fs, used, cfile, cwritten, cres>>

CallLoadDb(path, fault) ==
    /\ Room
    /\ LET r == load_db(fs, path, fault) IN
        /\ Meets(fault, r # load_db(fs, path, "none"))
        /\ fs' = r.fs
        /\ handles' = Construct(r, "load_db", path)
        /\ last' = [Last("load_db", Returned(r), path, r.res) EXCEPT !.fault = fault]
    /\ UNCHANGED <<cfile, cwritten, cres>>

\* write_database!((&ldb) /con::item = new_t(v))
CallWrite(h, key, t, v) ==
    /\ Live(h)
    /\ used.writes < MaxWrites
    /\ used' = [used EXCEPT !.writes = @ + 1]
    /\ LET r == write_database(fs, handles[h].db.path, key, t, v)
            w == [t |-> t, v |-> v] IN
        /\ fs' = r.fs
        /\ handles' =
              IF ~r.res.ok THEN handles
              ELSE [g \in 1..MaxHandles |->
                      IF g = h THEN [handles[g] EXCEPT !.wrote[key] = w]
                      ELSE IF handles[g].db.path = handles[h].db.path
                      THEN [handles[g] EXCEPT !.wrote[key] = NoCall]
                      ELSE handles[g]]
        /\ last' = [Last("write", h, handles[h].db.path, r.res)
                        EXCEPT !.key = key, !.t = t]
    /\ UNCHANGED <<cfile, cwritten, cres>>

\* search_database!((&ldb) /con::item).collect_t()
CallRead(h, key, t) ==
    /\ Live(h)
    /\ last' = [Last("read", h, handles[h].db.path,
                      search_collect(fs, handles[h].db.path, key, t))
                    EXCEPT !.key = key, !.t = t]
    /\ UNCHANGED <<fs, handles, used, cfile, cwritten, cres>>

\* ldb.compile(out_path)
CallCompile(h, out_path, fault) ==
    /\ Live(h)
    /\ LET r == compile(fs, handles[h].db.path, out_path, fault) IN
        /\ Meets(fault, r # compile(fs, handles[h].db.path, out_path, "none"))
        /\ fs' = r.fs
        /\ last' = [Last("compile", h, out_path, r.res) EXCEPT !.fault = fault]
    /\ UNCHANGED <<handles, cfile, cwritten, cres>>

\* the LazyDB goes out of scope; the fault is one of the compile step or, with
\* the compile step done, the outcome of the removal
Drop(h, fault, outcome) ==
    /\ Live(h)
    /\ fault # "none" => outcome = "ok"
    /\ LET r == drop(fs, handles[h].db, fault, outcome)
            hs == [handles EXCEPT ![h] = Dropped] IN
        /\ Meets(IF fault # "none" THEN fault ELSE IF outcome # "ok" THEN outcome ELSE "none",
                 r # drop(fs, handles[h].db, "none", "ok"))
        /\ fs' = r.fs
        /\ handles' = IF r.removal \in {"ok", "emptied"}
                       THEN Forget(hs, handles[h].db.path) ELSE hs
        /\ last' = [Last("drop", h, handles[h].db.path, Ok(0))
                        EXCEPT !.fault = fault, !.compiled = r.compiled,
                               !.removal = r.removal, !.self = handles[h]]
    /\ UNCHANGED <<cfile, cwritten, cres>>

Next ==
    \/ \E p \in InitArgs : \E f \in InitFaults : CallInit(p, f)
    \/ \E p \in InitDbArgs : \E f \in InitFaults : CallInitDb(p, f)
    \/ \E p \in DirArgs : CallLoadDir(p)
    \/ \E p \in ArchiveArgs : \E f \in DecompileFaults : CallLoadDb(p, f)
    \/ \E h \in 1..MaxHandles : \E k \in UserKeys : \E t \in LifeTypes :
            \E v \in LifeValues(t) : CallWrite(h, k, t, v)
    \/ \E h \in 1..MaxHandles : \E k \in UserKeys : \E t \in CollectTypes : CallRead(h, k, t)
    \/ \E h \in 1..MaxHandles : \E p \in CompileArgs : \E f \in CompileFaults :
            CallCompile(h, p, f)
    \/ \E h \in 1..MaxHandles : \E f \in CompileFaults : \E o \in RemoveOutcomes :
            Drop(h, f, o)

Spec == Init /\ [][Next]_vars

(***************************************************************************)
(* Properties of the codec, checked under CodecSpec                        *)
(***************************************************************************)
ScalarTypes == NumberTypes \cup FloatTypes \cup {"String", "Binary"}

RECURSIVE Utf8Len(_)
Utf8Len(s) ==
    IF s = << >> THEN 0
    ELSE (IF Head(s) < 128 THEN 1 ELSE IF Head(s) < 2048 THEN 2 ELSE 3) + Utf8Len(Tail(s))

PayloadLen(t, v) ==
    CASE t \in NumberTypes \cup FloatTypes -> Width(t)
      [] t = "String" -> Utf8Len(v)
      [] t = "Binary" -> Len(v)

Payload(bytes) == SubSeq(bytes, 2, Len(bytes))

\* C4: load_dir(path) fails with DirNotFound when path is no directory, with
\* FileNotFound when the directory has no .meta, with InvalidMetaVersion when
\* the .meta payload is not three bytes long, with IncompatibleVersion when its
\* major differs from the running one; with the same major, whatever the minor
\* and build, it returns a handle on path in the Directory state.
C4_LoadDirGate ==
    last.op = "load_dir" =>
        LET p == last.arg
            meta == fs[p].tree.leaves[MetaKey]
            binary == is_dir(fs, p) /\ meta # NoFile /\ meta[1] = TagByte("Binary")
        IN /\ ~is_dir(fs, p) => (last.res.err = "DirNotFound" /\ last.h = 0)
           /\ (is_dir(fs, p) /\ meta = NoFile) =>
                  (last.res.err = "FileNotFound" /\ last.h = 0)
           /\ (binary /\ Len(Payload(meta)) # 3) =>
                  (last.res.err = "InvalidMetaVersion" /\ last.h = 0)
           /\ (binary /\ Len(Payload(meta)) = 3 /\ Payload(meta)[1] # VERSION_major) =>
                  (last.res.err = "IncompatibleVersion" /\ last.h = 0)
           /\ (binary /\ Len(Payload(meta)) = 3 /\ Payload(meta)[1] = VERSION_major) =>
                  /\ last.res.ok
                  /\ last.h # 0
                  /\ handles[last.h].db = LazyDB(p, FALSE)

C4_Witness ==
    /\ last.op = "load_dir"
    /\ last.res.ok
    /\ Payload(fs[last.arg].tree.leaves[MetaKey]) = << VERSION_major, 0, 9 >>
    /\ ~handles[last.h].db.compressed

\* C9: a successful init(path) leaves path a directory with a .meta in it and
\* returns a Directory handle on path; a .meta it had to create holds the
\* running version's three bytes as a binary value, a .meta already there is
\* left as it was, and with it the whole file system (init again changes nothing).
C9_InitPost ==
    [][ (last'.op = "init" /\ last'.res.ok) =>
          LET p == last'.arg IN
            /\ is_dir(fs', p)
            /\ leaf_is_file(fs', p, MetaKey)
            /\ handles'[last'.h].db = LazyDB(p, FALSE)
            /\ ~leaf_is_file(fs, p, MetaKey) =>
                  fs'[p].tree.leaves[MetaKey] =
                      << TagByte("Binary"), VERSION_major, VERSION_minor, VERSION_build >>
            /\ leaf_is_file(fs, p, MetaKey) => fs' = fs
            /\ \A q \in Paths \ {p} : fs'[q] = fs[q]
            /\ is_dir(fs, p) =>
                  /\ fs'[p].tree.cons = fs[p].tree.cons
                  /\ \A k \in UserKeys : fs'[p].tree.leaves[k] = fs[p].tree.leaves[k]
      ]_vars

C9_Witness ==
    /\ last.op = "init"
    /\ last.res.ok
    /\ handles[last.h].db = LazyDB(last.arg, FALSE)
    /\ Payload(fs[last.arg].tree.leaves[MetaKey]) = << VERSION_major + 1, VERSION_minor, VERSION_build >>

\* C2: every handle load_db returns is Compiled, whether it unpacked the
\* archive or opened the working directory that was already there.
C2_LoadDbCompiled ==
    (last.op = "load_db" /\ last.res.ok) => handles[last.h].db.compressed

\* C5: on a database fresh from init, with no container in it, writing the u8
\* 21 at people/Dave::age succeeds.
C5_WriteCreatesContainers ==
    ( /\ last.op = "write"
      /\ handles[last.h].origin = "init"
      /\ last.key = << Dave, "age" >>
      /\ fs[last.arg].tree.cons = {} ) => last.res.ok

\* The drop of a LazyDB removed its directory
Removed(before, after, p) == is_dir(before, p) /\ ~is_dir(after, p)

\* C3 as the specification states it: a drop removes the handle's directory if
\* and only if the handle is Compiled and the compile step succeeded, and
\* otherwise leaves the directory as it was.
C3_RemovedIff ==
    [][ last'.op = "drop" =>
          LET p == last'.arg
              packed == last'.self.db.compressed /\ last'.compiled
          IN /\ Removed(fs, fs', p) <=> packed
             /\ ~packed => fs'[p] = fs[p]
      ]_vars

\* C3: a drop removes the handle's directory only if the handle is Compiled and
\* the compile step succeeded, and then it does remove it unless
\* fs::remove_dir_all itself fails, which the drop ignores as well; a Directory
\* handle, or a compile step that failed, leaves the directory as it was; the
\* drop returns nothing in every case.
C3_RemovedOnlyIf ==
    [][ last'.op = "drop" =>
          LET p == last'.arg
              packed == last'.self.db.compressed /\ last'.compiled
          IN /\ Removed(fs, fs', p) => packed
             /\ (packed /\ last'.removal = "ok") => Removed(fs, fs', p)
             /\ (packed /\ last'.removal = "intact") =>
                    (is_dir(fs', p) /\ fs'[p] = fs[p])
             /\ ~packed => fs'[p] = fs[p]
             /\ last'.res = Ok(0)
      ]_vars

C3_Witness ==
    /\ last.op = "drop"
    /\ last.self.db.compressed
    /\ last.compiled
    /\ last.removal = "intact"
    /\ is_dir(fs, last.arg)
    /\ is_file(fs, with_extension(last.arg, "ldb"))

C8_CompileDecompile ==
    [][ /\ (last'.op = "compile" /\ last'.res.ok) =>
              LET D == handles[last'.h].db.path
                  out == last'.arg
              IN /\ fs'[D] = fs[D]
                 /\ ~is_file(fs', with_extension(D, "tmp.tar"))
                 /\ is_file(fs', out)
                 /\ \A q \in DirArgs :
                      LET r == decompile([fs' EXCEPT ![q] = NoNode], out, q, "none") IN
                        /\ r.res.ok
                        /\ r.fs[q] = fs[D]
                        /\ r.fs[out] = fs'[out]
                        /\ ~is_file(r.fs, with_extension(out, "tmp.tar"))
        /\ (last'.op = "load_db" /\ last'.res.ok
                /\ ~is_dir(fs, with_extension(last'.arg, "modb"))) =>
              LET out == last'.arg
                  q == with_extension(out, "modb")
              IN /\ fs'[q] = DirNode(fs[out].tree)
                 /\ fs'[out] = fs[out]
                 /\ ~is_file(fs', with_extension(out, "tmp.tar"))
      ]_vars

C8_Witness ==
    /\ last.op = "load_db"
    /\ last.res.ok
    /\ handles[last.h].db.compressed
    /\ fs[with_extension(last.arg, "modb")].tree = fs[last.arg].tree
    /\ fs[last.arg].tree.leaves[<< Root, "age" >>] # NoFile

\* C10: when a load_db handle is dropped while its directory exists and
\* nothing fails in the compile step or the removal, the drop writes the
\* directory's contents to the archive and removes the directory; so a
\* directory left behind by a failed drop is packed by the next successful one.
C10_RecoveryRepacks ==
    [][ ( /\ last'.op = "drop"
          /\ last'.self.origin = "load_db"
          /\ last'.fault = "none"
          /\ last'.removal \in {"none", "ok"}
          /\ is_dir(fs, last'.arg) ) =>
            /\ ~is_dir(fs', last'.arg)
            /\ fs'[with_extension(last'.arg, "ldb")] = FileNode(TRUE, fs[last'.arg].tree)
      ]_vars

\* A LazyDB value in scope whose drop compiles and removes its directory
Compiled(h) == Live(h) /\ handles[h].db.compressed

\* The LazyDB values in scope other than h that are on the directory of h
Sharers(h) ==
    { g \in 1..MaxHandles \ {h} : Live(g) /\ handles[g].db.path = handles[h].db.path }

C12_RepacksSameArchive ==
    [][ ( /\ last'.op = "drop"
          /\ last'.self.origin = "load_db"
          /\ last'.self.db.compressed
          /\ last'.compiled
          /\ last'.removal = "ok" ) =>
            LET p == last'.self.arg
                dir == last'.self.db.path
            IN /\ fs'[p] = FileNode(TRUE, fs[dir].tree)
               /\ dir = with_extension(p, "modb")
               /\ fs'[with_extension(p, "ldb")] = FileNode(TRUE, fs[dir].tree)
      ]_vars

====
